---- MODULE Spec2Model ----
(***************************************************************************)
(* StandardPythonParameterType                                             *)
(* (src/inference_schema/parameter_types/standard_py_parameter_type.py):   *)
(* an object built from one sample value, with input_to_swagger() (sample  *)
(* -> swagger schema) and deserialize_input() (raw JSON-decoded input ->   *)
(* Python value checked against the sample's type).                        *)
(*                                                                         *)
(* A Python value is a record [t |-> name of its type, v |-> payload].     *)
(* Text (str) is a sequence of one-character strings, binary data a        *)
(* sequence of byte values 0..255, a list or tuple a sequence of values, a *)
(* dict a sequence of <<key, value>> pairs in iteration order.  An outcome *)
(* of a call is [err |-> "none", val |-> value] or [err |-> exception      *)
(* class, msg |-> message, ...].                                           *)
(***************************************************************************)
EXTENDS Integers, Sequences, FiniteSets, TLC

VARIABLES
    pc,                 \* "new": constructor not yet run; "ready": object built
    arg,                \* the sample_input argument given to the constructor
    self,               \* the object's attributes
    date_has_strptime,  \* whether the interpreter's datetime.date has strptime
    op,                 \* the last call made on the object
    raw,                \* the argument of the last call (None when it takes none)
    result,             \* the outcome of the last call
    first_swagger,      \* the outcome of the first input_to_swagger call
    swagger_calls       \* the number of input_to_swagger calls made

vars == <<pc, arg, self, date_has_strptime, op, raw, result, first_swagger, swagger_calls>>

-----------------------------------------------------------------------------
(* Bounds of the model *)

\* longest list, tuple or dict sample
MaxLen == 2
\* input_to_swagger calls made on one object
MaxCalls == 2

-----------------------------------------------------------------------------
(* Python values *)

NoneV == [t |-> "NoneType", v |-> <<>>]
IntV(n) == [t |-> "int", v |-> n]
BoolV(b) == [t |-> "bool", v |-> b]
StrV(cs) == [t |-> "str", v |-> cs]
\* a float, as a count of halves (3 is 1.5)
FloatV(h) == [t |-> "float", v |-> h]
BytesV(bs) == [t |-> "bytes", v |-> bs]
ByteArrayV(bs) == [t |-> "bytearray", v |-> bs]
DateV(y, m, d) == [t |-> "date", v |-> [year |-> y, month |-> m, day |-> d]]
TimeV(h, mi, s, us, tz) ==
    [t |-> "time",
     v |-> [hour |-> h, minute |-> mi, second |-> s, microsecond |-> us, tzinfo |-> tz]]
DatetimeV(y, m, d, h, mi, s, us, tz) ==
    [t |-> "datetime",
     v |-> [year |-> y, month |-> m, day |-> d,
            hour |-> h, minute |-> mi, second |-> s, microsecond |-> us, tzinfo |-> tz]]
\* range(stop)
RangeV(stop) == [t |-> "range", v |-> stop]
ListV(xs) == [t |-> "list", v |-> xs]
TupleV(xs) == [t |-> "tuple", v |-> xs]
DictV(items) == [t |-> "dict", v |-> items]
\* collections.OrderedDict, a subclass of dict
OrderedDictV(items) == [t |-> "OrderedDict", v |-> items]
\* a set: a type the schema derivation does not know and JSON cannot encode
SetV(xs) == [t |-> "set", v |-> xs]
\* a StandardPythonParameterType object built from sample x
Wrapped(x) == [t |-> "StandardPythonParameterType", v |-> x]
\* an element of a container that is the container itself (l = []; l.append(l))
SelfRef(container_type) == [t |-> "<recursion>", v |-> container_type]

\* type(x)
TypeOf(x) == IF x.t = "<recursion>" THEN x.v ELSE x.t

\* issubclass(a, b) over the types above
IsSubclass(a, b) ==
    \/ a = b
    \/ a = "bool" /\ b = "int"
    \/ a = "datetime" /\ b = "date"
    \/ a = "OrderedDict" /\ b = "dict"

\* isinstance(x, cls)
IsInstance(x, cls) == IsSubclass(TypeOf(x), cls)

\* issubclass(type(x), AbstractParameterType)
IsParameterType(x) == TypeOf(x) = "StandardPythonParameterType"

Ok(x) == [err |-> "none", val |-> x]
Raise(cls, message) == [err |-> cls, msg |-> message]

-----------------------------------------------------------------------------
(* Text helpers *)

Digits == <<"0", "1", "2", "3", "4", "5", "6", "7", "8", "9">>

RECURSIVE Pow10(_)
Pow10(n) == IF n = 0 THEN 1 ELSE 10 * Pow10(n - 1)

\* n as exactly `width` decimal digits, zero padded
Pad(n, width) == [i \in 1..width |-> Digits[((n \div Pow10(width - i)) % 10) + 1]]

IsDigit(c) == \E i \in 1..10 : Digits[i] = c
DigitValue(c) == (CHOOSE i \in 1..10 : Digits[i] = c) - 1
AllDigits(cs) == \A i \in 1..Len(cs) : IsDigit(cs[i])

RECURSIVE ToInt(_)
ToInt(cs) ==
    IF cs = <<>> THEN 0
    ELSE 10 * ToInt(SubSeq(cs, 1, Len(cs) - 1)) + DigitValue(cs[Len(cs)])

-----------------------------------------------------------------------------
(* base64.b64encode / base64.b64decode *)

B64Alphabet == <<
    "A", "B", "C", "D", "E", "F", "G", "H", "I", "J", "K", "L", "M",
    "N", "O", "P", "Q", "R", "S", "T", "U", "V", "W", "X", "Y", "Z",
    "a", "b", "c", "d", "e", "f", "g", "h", "i", "j", "k", "l", "m",
    "n", "o", "p", "q", "r", "s", "t", "u", "v", "w", "x", "y", "z",
    "0", "1", "2", "3", "4", "5", "6", "7", "8", "9", "+", "/">>

\* base64.b64encode(bs).decode('utf-8'): three bytes become four characters,
\* a shorter tail is padded with "="
RECURSIVE b64encode(_)
b64encode(bs) ==
    IF bs = <<>> THEN <<>>
    ELSE IF Len(bs) = 1 THEN
        <<B64Alphabet[(bs[1] \div 4) + 1], B64Alphabet[((bs[1] % 4) * 16) + 1], "=", "=">>
    ELSE IF Len(bs) = 2 THEN
        <<B64Alphabet[(bs[1] \div 4) + 1],
          B64Alphabet[((bs[1] % 4) * 16) + (bs[2] \div 16) + 1],
          B64Alphabet[((bs[2] % 16) * 4) + 1], "=">>
    ELSE
        <<B64Alphabet[(bs[1] \div 4) + 1],
          B64Alphabet[((bs[1] % 4) * 16) + (bs[2] \div 16) + 1],
          B64Alphabet[((bs[2] % 16) * 4) + (bs[3] \div 64) + 1],
          B64Alphabet[(bs[3] % 64) + 1]>> \o b64encode(SubSeq(bs, 4, Len(bs)))

IsB64Char(c) == \E i \in 1..64 : B64Alphabet[i] = c
B64Value(c) == (CHOOSE i \in 1..64 : B64Alphabet[i] = c) - 1

\* binascii.a2b_base64 without validation, one character at a time: characters
\* outside the alphabet are skipped, a complete pad ends the decoding, and
\* a dangling group is an error
RECURSIVE a2b_base64(_, _, _, _, _, _)
a2b_base64(cs, i, quad_pos, leftchar, pads, out) ==
    IF i > Len(cs) THEN
        IF quad_pos = 0 THEN Ok(BytesV(out))
        ELSE IF quad_pos = 1 THEN Raise("binascii.Error", "Invalid base64-encoded string")
        ELSE Raise("binascii.Error", "Incorrect padding")
    ELSE IF cs[i] = "=" THEN
        IF quad_pos >= 2 /\ quad_pos + pads + 1 >= 4 THEN Ok(BytesV(out))
        ELSE a2b_base64(cs, i + 1, quad_pos, leftchar,
                        IF quad_pos >= 2 THEN pads + 1 ELSE pads, out)
    ELSE IF ~IsB64Char(cs[i]) THEN a2b_base64(cs, i + 1, quad_pos, leftchar, pads, out)
    ELSE LET c == B64Value(cs[i]) IN
        IF quad_pos = 0 THEN a2b_base64(cs, i + 1, 1, c, 0, out)
        ELSE IF quad_pos = 1 THEN
            a2b_base64(cs, i + 1, 2, c % 16, 0, Append(out, (leftchar * 4) + (c \div 16)))
        ELSE IF quad_pos = 2 THEN
            a2b_base64(cs, i + 1, 3, c % 4, 0, Append(out, (leftchar * 16) + (c \div 4)))
        ELSE a2b_base64(cs, i + 1, 0, 0, 0, Append(out, (leftchar * 64) + c))

\* base64.b64decode(input_data.encode('utf-8')): only str has encode()
b64decode_encoded(input_data) ==
    IF TypeOf(input_data) # "str"
    THEN Raise("AttributeError", "object has no attribute 'encode'")
    ELSE a2b_base64(input_data.v, 1, 0, 0, 0, <<>>)

-----------------------------------------------------------------------------
(* Date and time text.  The format constants come from ._constants; a      *)
(* format is the sequence of its directives and literal characters.        *)

\* "%Y-%m-%d"
DATE_FORMAT == <<"%Y", "-", "%m", "-", "%d">>
\* "%Y-%m-%d %H:%M:%S,%f"
DATETIME_FORMAT ==
    <<"%Y", "-", "%m", "-", "%d", " ", "%H", ":", "%M", ":", "%S", ",", "%f">>
\* "%H:%M:%S,%f"
TIME_FORMAT == <<"%H", ":", "%M", ":", "%S", ",", "%f">>
ERR_PYTHON_DATA_NOT_JSON_SERIALIZABLE == "Invalid python data sample provided, not JSON serializable"

IsDirective(d) == d \in {"%Y", "%m", "%d", "%H", "%M", "%S", "%f"}
DirectiveWidth(d) == IF d = "%Y" THEN 4 ELSE IF d = "%f" THEN 6 ELSE 2
DirectiveField(d) ==
    CASE d = "%Y" -> "year" [] d = "%m" -> "month" [] d = "%d" -> "day"
      [] d = "%H" -> "hour" [] d = "%M" -> "minute" [] d = "%S" -> "second"
      [] d = "%f" -> "microsecond"
FieldRange(f) ==
    CASE f = "year" -> 1..9999 [] f = "month" -> 1..12 [] f = "day" -> 1..31
      [] f = "hour" -> 0..23 [] f = "minute" -> 0..59 [] f = "second" -> 0..59
      [] f = "microsecond" -> 0..999999

\* x.strftime(format): each directive prints its field zero padded, every
\* other character prints itself
RECURSIVE strftime(_, _)
strftime(fields, format) ==
    IF format = <<>> THEN <<>>
    ELSE (IF IsDirective(Head(format))
          THEN Pad(fields[DirectiveField(Head(format))], DirectiveWidth(Head(format)))
          ELSE <<Head(format)>>) \o strftime(fields, Tail(format))

\* the fields a text holds when read by a format, or "no match": the text
\* must fit the format exactly, every field in its range
RECURSIVE ReadFormat(_, _, _)
ReadFormat(cs, format, fields) ==
    IF format = <<>> THEN (IF cs = <<>> THEN [match |-> TRUE, fields |-> fields]
                           ELSE [match |-> FALSE])
    ELSE IF IsDirective(Head(format)) THEN
        LET w == DirectiveWidth(Head(format))
            f == DirectiveField(Head(format))
        IN  IF Len(cs) >= w /\ AllDigits(SubSeq(cs, 1, w))
               /\ ToInt(SubSeq(cs, 1, w)) \in FieldRange(f)
            THEN ReadFormat(SubSeq(cs, w + 1, Len(cs)), Tail(format),
                            [fields EXCEPT ![f] = ToInt(SubSeq(cs, 1, w))])
            ELSE [match |-> FALSE]
    ELSE IF cs # <<>> /\ Head(cs) = Head(format)
         THEN ReadFormat(Tail(cs), Tail(format), fields)
         ELSE [match |-> FALSE]

\* the date dateutil fills in for a text that holds only a time
Today == [year |-> 2026, month |-> 11, day |-> 5]

ZeroFields ==
    [year |-> Today.year, month |-> Today.month, day |-> Today.day,
     hour |-> 0, minute |-> 0, second |-> 0, microsecond |-> 0, tzinfo |-> "None"]

\* datetime.date.strptime(input_data, DATE_FORMAT): before Python 3.14
\* datetime.date has no strptime and the attribute lookup fails
date_strptime(input_data, has_strptime) ==
    IF ~has_strptime
    THEN Raise("AttributeError", "type object 'datetime.date' has no attribute 'strptime'")
    ELSE IF TypeOf(input_data) # "str"
    THEN Raise("TypeError", "strptime() argument 1 must be str")
    ELSE LET r == ReadFormat(input_data.v, DATE_FORMAT, ZeroFields) IN
         IF r.match THEN Ok(DateV(r.fields.year, r.fields.month, r.fields.day))
         ELSE Raise("ValueError", "time data does not match format")

\* dateutil.parser.parse(input_data): a date and time, a date alone (midnight)
\* or a time alone (today), without a zone; anything else is not parsed
parser_parse(input_data) ==
    IF TypeOf(input_data) # "str"
    THEN Raise("TypeError", "Parser must be a string or character stream")
    ELSE LET full == ReadFormat(input_data.v, DATETIME_FORMAT, ZeroFields)
             date == ReadFormat(input_data.v, DATE_FORMAT, ZeroFields)
             time == ReadFormat(input_data.v, TIME_FORMAT, ZeroFields)
             got == IF full.match THEN full ELSE IF date.match THEN date ELSE time
         IN  IF got.match THEN Ok([t |-> "datetime", v |-> got.fields])
             ELSE Raise("ParserError", "Unknown string format")

\* datetime.timetz(): the time of day with its zone
timetz(dt) ==
    TimeV(dt.v.hour, dt.v.minute, dt.v.second, dt.v.microsecond, dt.v.tzinfo)

-----------------------------------------------------------------------------
(* json.dumps *)

FirstError(outcomes) ==
    IF \E i \in 1..Len(outcomes) : outcomes[i] # "ok"
    THEN outcomes[CHOOSE i \in 1..Len(outcomes) :
                      /\ outcomes[i] # "ok"
                      /\ \A j \in 1..(i - 1) : outcomes[j] = "ok"]
    ELSE "ok"

\* a mapping key the encoder accepts: str, int, float, bool or None
JsonKey(k) ==
    IF TypeOf(k) \in {"str", "int", "float", "bool", "NoneType"} THEN "ok" ELSE "TypeError"

\* json.dumps of a Python value: "ok", or the exception it raises.  A type the
\* encoder does not know is a TypeError, a container met inside itself
\* ("Circular reference detected") a ValueError
RECURSIVE JsonValue(_)
JsonValue(x) ==
    IF x.t = "<recursion>" THEN "ValueError"
    ELSE IF x.t \in {"NoneType", "int", "bool", "str", "float"} THEN "ok"
    ELSE IF x.t \in {"list", "tuple"} THEN
        FirstError([i \in 1..Len(x.v) |-> JsonValue(x.v[i])])
    ELSE IF x.t \in {"dict", "OrderedDict"} THEN
        FirstError([i \in 1..Len(x.v) |->
                       FirstError(<<JsonKey(x.v[i][1]), JsonValue(x.v[i][2])>>)])
    ELSE "TypeError"

SchemaHas(schema, key) == key \in DOMAIN schema

\* json.dumps(schema): the schema's entries in the order the code writes them
RECURSIVE JsonDumps(_)
JsonDumps(schema) ==
    FirstError(<<
        IF SchemaHas(schema, "items") THEN JsonDumps(schema.items) ELSE "ok",
        IF SchemaHas(schema, "required") THEN JsonValue(ListV(schema.required)) ELSE "ok",
        IF SchemaHas(schema, "properties")
        THEN FirstError([i \in 1..Len(schema.properties) |->
                 FirstError(<<JsonKey(schema.properties[i][1]),
                              JsonDumps(schema.properties[i][2])>>)])
        ELSE "ok",
        IF SchemaHas(schema, "example") THEN JsonValue(schema.example) ELSE "ok">>)

-----------------------------------------------------------------------------
(* class StandardPythonParameterType *)

\* `a is b` read as issubclass(a, b)
IsSubclassOrSame(a, b) == IsSubclass(a, b)

\* `a is b` on two types: the same type, not a subtype of it
TypeIs(a, b) == a = b

\* AbstractParameterType.__init__: keeps the sample and its exact type
AbstractParameterType_init(sample_input) ==
    [sample_input |-> sample_input, sample_data_type |-> TypeOf(sample_input)]

IsWrappedItem(kv) == IsParameterType(kv[2])

\* __init__(self, sample_input): the wrapped values of a dict sample are kept
\* as a map (here its items, in order), those of a list or tuple as a list
__init__(sample_input) ==
    LET base == AbstractParameterType_init(sample_input) IN
    [sample_input |-> base.sample_input,
     sample_data_type |-> base.sample_data_type,
     sample_data_type_map |->
        IF TypeIs(base.sample_data_type, "dict")
        THEN SelectSeq(sample_input.v, IsWrappedItem) ELSE <<>>,
     sample_data_type_list |->
        IF TypeIs(base.sample_data_type, "list") \/ TypeIs(base.sample_data_type, "tuple")
        THEN SelectSeq(sample_input.v, IsParameterType) ELSE <<>>]

\* the coercion of deserialize_input, by the sample's type
Coerce(obj, input_data, has_strptime) ==
    IF TypeIs(obj.sample_data_type, "date") THEN date_strptime(input_data, has_strptime)
    ELSE IF TypeIs(obj.sample_data_type, "datetime") THEN parser_parse(input_data)
    ELSE IF TypeIs(obj.sample_data_type, "time") THEN
        LET parsed == parser_parse(input_data) IN
        IF parsed.err = "none" THEN Ok(timetz(parsed.val)) ELSE parsed
    ELSE IF TypeIs(obj.sample_data_type, "bytearray") \/ TypeIs(obj.sample_data_type, "bytes") THEN
        b64decode_encoded(input_data)
    ELSE Ok(input_data)

\* CheckType comparing type(input_data) with the sample's type
CheckType_exact(obj, input_data) ==
    IF TypeOf(input_data) # obj.sample_data_type
    THEN [err |-> "ValueError", msg |-> "Invalid input data type to parse.",
          expected |-> obj.sample_data_type, got |-> TypeOf(input_data)]
    ELSE Ok(input_data)

\* the final check of deserialize_input on the coerced value
CheckType(obj, input_data) ==
    IF ~IsInstance(input_data, obj.sample_data_type)
    THEN [err |-> "ValueError", msg |-> "Invalid input data type to parse.",
          expected |-> obj.sample_data_type, got |-> TypeOf(input_data)]
    ELSE Ok(input_data)

\* deserialize_input passing the first element of a list input to the first
\* wrapped item of sample_data_type_list
deserialize_input_nested(obj, input_data, has_strptime) ==
    LET coerced == Coerce(obj, input_data, has_strptime) IN
    IF coerced.err # "none" THEN coerced
    ELSE IF obj.sample_data_type_list # <<>> /\ TypeOf(coerced.val) \in {"list", "tuple"}
            /\ coerced.val.v # <<>>
    THEN LET item == __init__(obj.sample_data_type_list[1].v)
             first == Coerce(item, coerced.val.v[1], has_strptime)
             checked == IF first.err # "none" THEN first ELSE CheckType(item, first.val)
         IN  IF checked.err # "none" THEN checked
             ELSE CheckType(obj, [coerced.val EXCEPT !.v[1] = checked.val])
    ELSE CheckType(obj, coerced.val)

\* deserialize_input(self, input_data)
deserialize_input(obj, input_data, has_strptime) ==
    LET coerced == Coerce(obj, input_data, has_strptime) IN
    IF coerced.err # "none" THEN coerced ELSE CheckType(obj, coerced.val)

\* the attributes of self after deserialize_input: it rebinds its local
\* input_data and assigns to no attribute
SelfAfterDeserializeInput(obj, input_data) == obj

RECURSIVE input_to_swagger(_)
RECURSIVE _get_swagger_for_nested_dict_loop(_, _, _, _, _, _)

\* _get_swagger_for_list accepting elements of a subtype of the first's type
_get_swagger_for_list_subclass(python_data) ==
    LET schema == [type |-> "array", items |-> [type |-> "object"], example |-> python_data] IN
    IF python_data.v = <<>> THEN Ok(schema)
    ELSE LET item_type == TypeOf(python_data.v[1]) IN
        IF \E i \in 1..Len(python_data.v) : ~IsSubclass(TypeOf(python_data.v[i]), item_type)
        THEN Raise("Exception", "Error, OpenAPI 2.x does not support mixed type in array.")
        ELSE IF IsSubclass(item_type, "StandardPythonParameterType") THEN
            LET nested_item_swagger == input_to_swagger(__init__(python_data.v[1].v)) IN
            IF nested_item_swagger.err # "none" THEN nested_item_swagger
            ELSE Ok([type |-> "array", items |-> nested_item_swagger.val,
                     example |-> ListV(<<nested_item_swagger.val.example>>)])
        ELSE Ok(schema)

\* _get_swagger_for_list deriving the schema of every wrapped element and
\* listing every example
_get_swagger_for_list_all(python_data) ==
    LET schema == [type |-> "array", items |-> [type |-> "object"], example |-> python_data] IN
    IF python_data.v = <<>> THEN Ok(schema)
    ELSE LET item_type == TypeOf(python_data.v[1]) IN
        IF \E i \in 1..Len(python_data.v) : TypeOf(python_data.v[i]) # item_type
        THEN Raise("Exception", "Error, OpenAPI 2.x does not support mixed type in array.")
        ELSE IF IsSubclass(item_type, "StandardPythonParameterType") THEN
            LET nested == [i \in 1..Len(python_data.v) |->
                              input_to_swagger(__init__(python_data.v[i].v))]
            IN  IF \E i \in 1..Len(nested) : nested[i].err # "none"
                THEN nested[CHOOSE i \in 1..Len(nested) :
                                /\ nested[i].err # "none"
                                /\ \A j \in 1..(i - 1) : nested[j].err = "none"]
                ELSE Ok([type |-> "array", items |-> nested[1].val,
                         example |-> ListV([i \in 1..Len(nested) |-> nested[i].val.example])])
        ELSE Ok(schema)

\* _get_swagger_for_list(self, python_data)
_get_swagger_for_list(python_data) ==
    LET schema == [type |-> "array", items |-> [type |-> "object"], example |-> python_data] IN
    IF python_data.v = <<>> THEN Ok(schema)
    ELSE LET item_type == TypeOf(python_data.v[1]) IN
        IF \E i \in 1..Len(python_data.v) : TypeOf(python_data.v[i]) # item_type
        THEN Raise("Exception", "Error, OpenAPI 2.x does not support mixed type in array.")
        ELSE IF IsSubclass(item_type, "StandardPythonParameterType") THEN
            LET nested_item_swagger == input_to_swagger(__init__(python_data.v[1].v)) IN
            IF nested_item_swagger.err # "none" THEN nested_item_swagger
            ELSE Ok([type |-> "array", items |-> nested_item_swagger.val,
                     example |-> ListV(<<nested_item_swagger.val.example>>)])
        ELSE Ok(schema)

\* the for loop of _get_swagger_for_nested_dict, from item i on, and the
\* schema built after it
_get_swagger_for_nested_dict_loop(python_data, i, nested_items, examples, required, has_wrapped_items) ==
    IF i > Len(python_data.v) THEN
        IF has_wrapped_items
        THEN Ok([type |-> "object", required |-> required, properties |-> nested_items,
                 example |-> DictV(examples)])
        ELSE Ok([type |-> "object", additionalProperties |-> [type |-> "object"],
                 example |-> python_data])
    ELSE LET k == python_data.v[i][1]
             v == python_data.v[i][2]
         IN  IF IsParameterType(v) THEN
                 LET nested_items_swagger == input_to_swagger(__init__(v.v)) IN
                 IF nested_items_swagger.err # "none" THEN nested_items_swagger
                 ELSE _get_swagger_for_nested_dict_loop(
                          python_data, i + 1,
                          Append(nested_items, <<k, nested_items_swagger.val>>),
                          Append(examples, <<k, nested_items_swagger.val.example>>),
                          Append(required, k), TRUE)
             ELSE _get_swagger_for_nested_dict_loop(
                      python_data, i + 1,
                      Append(nested_items, <<k, [type |-> "object"]>>),
                      Append(examples, <<k, v>>),
                      Append(required, k), has_wrapped_items)

\* _get_swagger_for_nested_dict with has_wrapped_items starting True
_get_swagger_for_nested_dict_flagged(python_data) ==
    _get_swagger_for_nested_dict_loop(python_data, 1, <<>>, <<>>, <<>>, TRUE)

\* _get_swagger_for_nested_dict(self, python_data)
_get_swagger_for_nested_dict(python_data) ==
    _get_swagger_for_nested_dict_loop(python_data, 1, <<>>, <<>>, <<>>, FALSE)

\* the sample with tzinfo set to UTC when it has none
WithZone(sample_input) ==
    IF sample_input.v.tzinfo = "None"
    THEN [sample_input EXCEPT !.v.tzinfo = "UTC"]
    ELSE sample_input

\* the schema input_to_swagger builds before it checks that JSON can encode it
SwaggerForType(obj) ==
    LET sample_input == obj.sample_input
        sample_data_type == obj.sample_data_type
    IN
    IF TypeIs(sample_data_type, "int") THEN
        Ok([type |-> "integer", format |-> "int64", example |-> sample_input])
    ELSE IF TypeIs(sample_data_type, "bytes") THEN
        Ok([type |-> "string", format |-> "byte", example |-> StrV(b64encode(sample_input.v))])
    ELSE IF TypeIs(sample_data_type, "range") THEN
        \* called with two arguments; _get_swagger_for_list takes one
        Raise("TypeError", "_get_swagger_for_list() takes 2 positional arguments but 3 were given")
    ELSE IF TypeIs(sample_data_type, "str") THEN
        Ok([type |-> "string", example |-> sample_input])
    ELSE IF TypeIs(sample_data_type, "float") THEN
        Ok([type |-> "number", format |-> "double", example |-> sample_input])
    ELSE IF TypeIs(sample_data_type, "bool") THEN
        Ok([type |-> "boolean", example |-> sample_input])
    ELSE IF TypeIs(sample_data_type, "date") THEN
        Ok([type |-> "string", format |-> "date",
            example |-> StrV(strftime(sample_input.v, DATE_FORMAT))])
    ELSE IF TypeIs(sample_data_type, "datetime") THEN
        Ok([type |-> "string", format |-> "date-time",
            example |-> StrV(strftime(WithZone(sample_input).v, DATETIME_FORMAT))])
    ELSE IF TypeIs(sample_data_type, "time") THEN
        Ok([type |-> "string", format |-> "time",
            example |-> StrV(strftime(WithZone(sample_input).v, TIME_FORMAT))])
    ELSE IF TypeIs(sample_data_type, "bytearray") THEN
        Ok([type |-> "string", format |-> "byte", example |-> StrV(b64encode(sample_input.v))])
    ELSE IF TypeIs(sample_data_type, "list") \/ TypeIs(sample_data_type, "tuple") THEN
        _get_swagger_for_list(sample_input)
    ELSE IF TypeIs(sample_data_type, "dict") THEN
        _get_swagger_for_nested_dict(sample_input)
    ELSE Ok([type |-> "object", example |-> sample_input])

\* the try around json.dumps(schema): only a TypeError is caught and raised
\* again with the module's message; any other exception passes through
EnsureJsonSerializable(schema) ==
    LET dumped == JsonDumps(schema) IN
    IF dumped = "ok" THEN Ok(schema)
    ELSE IF dumped = "TypeError" THEN Raise("TypeError", ERR_PYTHON_DATA_NOT_JSON_SERIALIZABLE)
    ELSE Raise(dumped, "Circular reference detected")

\* input_to_swagger(self)
input_to_swagger(obj) ==
    IF TypeOf(obj.sample_input) = "NoneType" THEN Raise("ValueError", "Python data cannot be None")
    ELSE LET schema == SwaggerForType(obj) IN
         IF schema.err # "none" THEN schema ELSE EnsureJsonSerializable(schema.val)

\* input_to_swagger storing the sample with its zone default back in self
SelfAfterInputToSwagger_stored(obj) ==
    IF obj.sample_data_type \in {"datetime", "time"}
    THEN [obj EXCEPT !.sample_input = WithZone(obj.sample_input)]
    ELSE obj

\* the attributes of self after input_to_swagger: the zone default is put on
\* a new local object, and no attribute is assigned
SelfAfterInputToSwagger(obj) == obj

-----------------------------------------------------------------------------
(* Samples and inputs *)

hello == <<"h", "e", "l", "l", "o">>

ScalarSamples ==
    {IntV(5), IntV(0), StrV(hello), StrV(<<>>), FloatV(3), BoolV(TRUE), BoolV(FALSE),
     BytesV(<<>>), BytesV(<<255>>), BytesV(<<104, 105>>), BytesV(<<0, 16, 131>>),
     BytesV(<<104, 101, 108, 108>>),
     ByteArrayV(<<>>), ByteArrayV(<<104, 105>>),
     DateV(2020, 1, 31),
     DatetimeV(2020, 1, 31, 23, 59, 7, 123456, "None"),
     DatetimeV(1999, 12, 1, 0, 0, 0, 0, "UTC"),
     TimeV(23, 59, 7, 123456, "None"),
     TimeV(0, 5, 0, 0, "UTC")}

OtherSamples ==
    {NoneV, RangeV(3), RangeV(0), SetV(<<IntV(1)>>),
     OrderedDictV(<< <<StrV(<<"a">>), IntV(1)>> >>),
     Wrapped(IntV(5))}

\* what a list or tuple sample may hold
Elements ==
    {IntV(1), StrV(<<"a">>), BoolV(TRUE), BytesV(<<97>>),
     Wrapped(IntV(5)), Wrapped(NoneV),
     Wrapped(ListV(<<IntV(1), StrV(<<"a">>)>>)),
     Wrapped(ListV(<<Wrapped(StrV(<<"a">>)), Wrapped(NoneV)>>))}

\* the keys and the values of a dict sample
Keys == <<StrV(<<"x">>), StrV(<<"y">>), TupleV(<<IntV(1)>>)>>
FieldValues ==
    {IntV(5), BytesV(<<97>>), Wrapped(IntV(5)), Wrapped(NoneV),
     Wrapped(DictV(<< <<StrV(<<"a">>), Wrapped(FloatV(3))>>, <<StrV(<<"b">>), IntV(1)>> >>))}

SeqsUpTo(S, n) == UNION {[1..k -> S] : k \in 0..n}

\* sequences of distinct indexes of Keys: the keys of a dict, in iteration order
KeyOrders == {ks \in SeqsUpTo(1..Len(Keys), MaxLen) :
                 \A i, j \in 1..Len(ks) : i # j => ks[i] # ks[j]}

DictSamples ==
    {DictV([i \in 1..Len(ks) |-> <<Keys[ks[i]], vs[i]>>]) :
        <<ks, vs>> \in {p \in KeyOrders \X SeqsUpTo(FieldValues, MaxLen) :
                           Len(p[1]) = Len(p[2])}}

ListSamples ==
    {ListV(xs) : xs \in SeqsUpTo(Elements, MaxLen)}
        \cup {TupleV(xs) : xs \in SeqsUpTo(Elements, MaxLen)}
        \cup {ListV(<<SelfRef("list")>>), DictV(<< <<StrV(<<"x">>), SelfRef("dict")>> >>)}

Samples == ScalarSamples \cup OtherSamples \cup ListSamples \cup DictSamples

\* the example of the schema of the object, when it has one, as text to read back
OwnExample(obj) ==
    LET swagger == input_to_swagger(obj) IN
    IF swagger.err = "none" THEN {swagger.val.example} ELSE {}

RawInputs ==
    {IntV(5), BoolV(TRUE), StrV(hello), FloatV(3), NoneV,
     StrV(<<"a", "G", "k", "=">>), StrV(<<"a", "G", "k">>), StrV(<<"!", "/", "w", "=", "=">>),
     StrV(<<"2", "0", "2", "0", "-", "0", "1", "-", "3", "1">>),
     StrV(<<"2", "3", ":", "5", "9", ":", "0", "7", ",", "1", "2", "3", "4", "5", "6">>),
     ListV(<<IntV(1), StrV(<<"a">>)>>), TupleV(<<>>),
     DictV(<< <<StrV(<<"x">>), IntV(5)>> >>),
     OrderedDictV(<< <<StrV(<<"x">>), IntV(5)>> >>)}

-----------------------------------------------------------------------------
(* The object's life: built once from a sample, then called any number of   *)
(* times                                                                    *)

NotBuilt ==
    [sample_input |-> NoneV, sample_data_type |-> "NoneType",
     sample_data_type_map |-> <<>>, sample_data_type_list |-> <<>>]
NotCalled == [err |-> "not called"]

Init ==
    /\ pc = "new"
    /\ arg \in Samples
    /\ self = NotBuilt
    /\ date_has_strptime \in BOOLEAN
    /\ op = "none"
    /\ raw = NoneV
    /\ result = NotCalled
    /\ first_swagger = NotCalled
    /\ swagger_calls = 0

\* StandardPythonParameterType(arg)
Construct ==
    /\ pc = "new"
    /\ pc' = "ready"
    /\ self' = __init__(arg)
    /\ op' = "__init__"
    /\ result' = Ok(NoneV)
    /\ raw' = arg
    /\ UNCHANGED <<arg, date_has_strptime, first_swagger, swagger_calls>>

\* self.input_to_swagger()
InputToSwagger ==
    /\ pc = "ready"
    /\ swagger_calls < MaxCalls
    /\ swagger_calls' = swagger_calls + 1
    /\ op' = "input_to_swagger"
    /\ raw' = NoneV
    /\ result' = input_to_swagger(self)
    /\ first_swagger' = IF first_swagger = NotCalled THEN result' ELSE first_swagger
    /\ self' = SelfAfterInputToSwagger(self)
    /\ UNCHANGED <<pc, arg, date_has_strptime>>

\* self.deserialize_input(input_data)
DeserializeInput ==
    /\ pc = "ready"
    /\ \E input_data \in RawInputs \cup OwnExample(self) :
        /\ op' = "deserialize_input"
        /\ raw' = input_data
        /\ result' = deserialize_input(self, input_data, date_has_strptime)
        /\ self' = SelfAfterDeserializeInput(self, input_data)
    /\ UNCHANGED <<pc, arg, date_has_strptime, first_swagger, swagger_calls>>

Next == Construct \/ InputToSwagger \/ DeserializeInput

Spec == Init /\ [][Next]_vars

-----------------------------------------------------------------------------
(* Properties *)

ScalarKinds ==
    {"int", "str", "float", "bool", "bytes", "bytearray", "date", "datetime", "time"}
SequenceKinds == {"list", "tuple"}

Swaggered == pc = "ready" /\ op = "input_to_swagger"
Deserialized == pc = "ready" /\ op = "deserialize_input"

\* the dispatch table of the specification: kind -> <<type, format>>
DispatchTable(kind) ==
    CASE kind = "int" -> <<"integer", "int64">>
      [] kind = "str" -> <<"string", "">>
      [] kind = "float" -> <<"number", "double">>
      [] kind = "bool" -> <<"boolean", "">>
      [] kind \in {"bytes", "bytearray"} -> <<"string", "byte">>
      [] kind = "date" -> <<"string", "date">>
      [] kind = "datetime" -> <<"string", "date-time">>
      [] kind = "time" -> <<"string", "time">>

TypeAndFormat(schema) ==
    <<schema.type, IF SchemaHas(schema, "format") THEN schema.format ELSE "">>

\* C1: input_to_swagger on a sample of a scalar kind returns a schema whose
\* type and format are the pair of the dispatch table for that kind; a bool
\* sample is never an integer, a datetime sample never a date.
C1_ScalarDispatch ==
    (Swaggered /\ self.sample_data_type \in ScalarKinds) =>
        /\ result.err = "none"
        /\ TypeAndFormat(result.val) = DispatchTable(self.sample_data_type)

C1_Witness ==
    /\ Swaggered
    /\ self.sample_input = DatetimeV(2020, 1, 31, 23, 59, 7, 123456, "None")
    /\ result.err = "none"
    /\ result.val.format = "date-time"

\* C2: deserialize_input of the example of the sample's own schema succeeds
\* and returns a value equal to the sample, for every scalar kind.
C2_ExampleRoundTrip ==
    (/\ Deserialized
     /\ self.sample_data_type \in ScalarKinds
     /\ input_to_swagger(self).err = "none"
     /\ raw = input_to_swagger(self).val.example)
        => result = Ok(self.sample_input)

\* the value deserialize_input checks, when the coercion gave one
CoercedRaw == Coerce(self, raw, date_has_strptime)

TypeMismatch(expected, got) ==
    [err |-> "ValueError", msg |-> "Invalid input data type to parse.",
     expected |-> expected, got |-> got]

\* C3 as stated: whenever the type of the coerced value is not exactly the
\* sample's type, deserialize_input fails with the type mismatch error.
C3_ExactKind ==
    (Deserialized /\ CoercedRaw.err = "none"
        /\ TypeOf(CoercedRaw.val) # self.sample_data_type)
        => result = TypeMismatch(self.sample_data_type, TypeOf(CoercedRaw.val))

\* C3 amended: the check is an instance check.  A coerced value whose type is
\* neither the sample's type nor a subtype of it fails with the type mismatch
\* error carrying both types; a value of the type or of a subtype of it (a
\* bool for an int sample) is returned.
C3_InstanceCheck ==
    (Deserialized /\ CoercedRaw.err = "none") =>
        IF IsSubclass(TypeOf(CoercedRaw.val), self.sample_data_type)
        THEN result = Ok(CoercedRaw.val)
        ELSE result = TypeMismatch(self.sample_data_type, TypeOf(CoercedRaw.val))

C3_Witness ==
    /\ Deserialized
    /\ self.sample_data_type = "int"
    /\ raw = BoolV(TRUE)
    /\ result = Ok(BoolV(TRUE))

\* the schema of a wrapped value
NestedSwagger(wrapped) == input_to_swagger(__init__(wrapped.v))

HasWrappedField(mapping) == \E i \in 1..Len(mapping.v) : IsParameterType(mapping.v[i][2])

\* the two shapes of the object derivation, field by field
StructuredShape(mapping) ==
    [type |-> "object",
     required |-> [i \in 1..Len(mapping.v) |-> mapping.v[i][1]],
     properties |-> [i \in 1..Len(mapping.v) |->
        <<mapping.v[i][1],
          IF IsParameterType(mapping.v[i][2]) THEN NestedSwagger(mapping.v[i][2]).val
          ELSE [type |-> "object"]>>],
     example |-> DictV([i \in 1..Len(mapping.v) |->
        <<mapping.v[i][1],
          IF IsParameterType(mapping.v[i][2]) THEN NestedSwagger(mapping.v[i][2]).val.example
          ELSE mapping.v[i][2]>>])]

OpaqueShape(mapping) ==
    [type |-> "object", additionalProperties |-> [type |-> "object"], example |-> mapping]

\* C4: a schema returned for a dict sample has one of two shapes: with a
\* wrapped field, type/required/properties/example, required listing every key
\* in iteration order, properties holding the nested schema or {type: object},
\* example the nested example or the raw value; without one (the empty dict
\* too), type/additionalProperties/example with neither required nor
\* properties.
C4_ObjectShapes ==
    (Swaggered /\ self.sample_data_type = "dict" /\ result.err = "none") =>
        IF HasWrappedField(self.sample_input)
        THEN result.val = StructuredShape(self.sample_input)
        ELSE /\ result.val = OpaqueShape(self.sample_input)
             /\ ~SchemaHas(result.val, "required")
             /\ ~SchemaHas(result.val, "properties")

C4_Witness ==
    /\ Swaggered
    /\ self.sample_input = DictV(<< <<StrV(<<"x">>), Wrapped(IntV(5))>>, <<StrV(<<"y">>), IntV(5)>> >>)
    /\ result.err = "none"
    /\ result.val.required = <<StrV(<<"x">>), StrV(<<"y">>)>>
    /\ result.val.properties[2] = <<StrV(<<"y">>), [type |-> "object"]>>

IsMixedTypeError(outcome) == outcome.err = "Exception"

Heterogeneous(sequence) ==
    \E i \in 1..Len(sequence.v) : TypeOf(sequence.v[i]) # TypeOf(sequence.v[1])

EmptyArraySchema(sequence) ==
    [type |-> "array", items |-> [type |-> "object"], example |-> sequence]

\* C5 as stated: for a list or tuple sample input_to_swagger fails with the
\* mixed type error exactly when the sequence is not empty and some element's
\* type differs from the first's; the empty sequence gives the empty array
\* schema; the constructor never fails.
C5_MixedIffHeterogeneous ==
    /\ (pc = "ready" /\ op = "__init__") => result.err = "none"
    /\ (Swaggered /\ self.sample_data_type \in SequenceKinds) =>
        /\ IsMixedTypeError(result) <=>
              (self.sample_input.v # <<>> /\ Heterogeneous(self.sample_input))
        /\ self.sample_input.v = <<>> => result = Ok(EmptyArraySchema(self.sample_input))

\* C5 amended: the mixed type error is raised exactly when the sequence is not
\* empty and either some element's type differs from the first's, or the
\* elements all have the first's type, the first is a wrapped value and its own
\* input_to_swagger fails with the mixed type error.
C5_MixedIffHeterogeneousOrNested ==
    /\ (pc = "ready" /\ op = "__init__") => result.err = "none"
    /\ (Swaggered /\ self.sample_data_type \in SequenceKinds) =>
        /\ IsMixedTypeError(result) <=>
              /\ self.sample_input.v # <<>>
              /\ \/ Heterogeneous(self.sample_input)
                 \/ /\ IsParameterType(self.sample_input.v[1])
                    /\ IsMixedTypeError(NestedSwagger(self.sample_input.v[1]))
        /\ self.sample_input.v = <<>> => result = Ok(EmptyArraySchema(self.sample_input))

C5_Witness ==
    /\ Swaggered
    /\ self.sample_input = ListV(<<IntV(1), StrV(<<"a">>)>>)
    /\ self.sample_data_type_list = <<>>
    /\ IsMixedTypeError(result)

\* C6: input_to_swagger on a range sample returns an array schema with
\* integer/int64 items and the range as its example.
C6_RangeSchema ==
    (Swaggered /\ self.sample_data_type = "range") =>
        /\ result.err = "none"
        /\ result.val.type = "array"
        /\ result.val.items = [type |-> "integer", format |-> "int64"]
        /\ result.val.example = self.sample_input

IsSchemaNotSerializable(outcome) ==
    outcome.err = "TypeError" /\ outcome.msg = ERR_PYTHON_DATA_NOT_JSON_SERIALIZABLE

\* C7: every schema input_to_swagger returns can be JSON encoded, and whenever
\* the encoder rejects the derived schema, for whatever reason, the call fails
\* with the not-serializable error and with no other.
C7_SerializabilityGuard ==
    Swaggered =>
        /\ result.err = "none" => JsonDumps(result.val) = "ok"
        /\ (/\ TypeOf(self.sample_input) # "NoneType"
            /\ SwaggerForType(self).err = "none"
            /\ JsonDumps(SwaggerForType(self).val) # "ok")
               => IsSchemaNotSerializable(result)

\* C8: after any calls, failed or not, the object's sample, type, map and list
\* are those the constructor set, and every input_to_swagger call on it has the
\* outcome of the first one.
C8_CallsLeaveSelf ==
    pc = "ready" =>
        /\ self = __init__(arg)
        /\ Swaggered => result = first_swagger

C8_Witness ==
    /\ Swaggered
    /\ swagger_calls = 2
    /\ self.sample_input = DatetimeV(2020, 1, 31, 23, 59, 7, 123456, "None")
    /\ result.err = "none"

HomogeneousNonEmpty(sequence) == sequence.v # <<>> /\ ~Heterogeneous(sequence)

\* C9: for a non-empty homogeneous list or tuple whose first element is
\* wrapped, input_to_swagger returns type array, items S, example [S.example],
\* S being the first element's own schema, whatever the other elements are,
\* and fails when the first element's derivation fails; when the first element
\* is not wrapped a returned schema is the generic array with the sample as
\* example.
C9_NestedArray ==
    (Swaggered /\ self.sample_data_type \in SequenceKinds
        /\ HomogeneousNonEmpty(self.sample_input)) =>
        IF IsParameterType(self.sample_input.v[1])
        THEN LET S == NestedSwagger(self.sample_input.v[1]) IN
             IF S.err = "none"
             THEN result = Ok([type |-> "array", items |-> S.val,
                               example |-> ListV(<<S.val.example>>)])
             ELSE result.err # "none"
        ELSE result.err = "none" => result.val = EmptyArraySchema(self.sample_input)

C9_Witness ==
    /\ Swaggered
    /\ self.sample_input = ListV(<<Wrapped(IntV(5)), Wrapped(NoneV)>>)
    /\ result.err = "none"
    /\ result.val.example = ListV(<<IntV(5)>>)

\* C10: for a list, tuple or dict sample deserialize_input coerces nothing and
\* consults neither sample_data_type_map nor sample_data_type_list: it returns
\* the input itself when the input passes the type check and fails with the
\* type mismatch error otherwise.
C10_ContainersNotCoerced ==
    (Deserialized /\ self.sample_data_type \in SequenceKinds \cup {"dict"}) =>
        IF IsInstance(raw, self.sample_data_type)
        THEN result = Ok(raw)
        ELSE result = TypeMismatch(self.sample_data_type, TypeOf(raw))

C10_Witness ==
    /\ Deserialized
    /\ self.sample_input = ListV(<<Wrapped(IntV(5))>>)
    /\ self.sample_data_type_list = <<Wrapped(IntV(5))>>
    /\ raw = ListV(<<IntV(1), StrV(<<"a">>)>>)
    /\ result = Ok(raw)

====
